---- MODULE Spec2Model ----
(***************************************************************************)
(* RPC over HTTP (ncacn_http): the authentication handshake of the inbound *)
(* and the outbound channel of libfreerdp/core/gateway/ncacn_http.c.       *)
(*                                                                         *)
(* BOOL is an int: FALSE is 0 and TRUE is 1, and a caller tests a BOOL     *)
(* result with !result, so the model keeps results as integers.            *)
(***************************************************************************)
EXTENDS Integers, Sequences, FiniteSets, TLC

VARIABLES
    auth,      \* auth[c]: channel->auth is not NULL
    ctx,       \* ctx[c]: the rdpCredsspAuth the channel's auth points to
    initDone,  \* initDone[c]: rpc_ncacn_http_auth_init was called on c
    wire,      \* wire[c]: the requests rpc_channel_write has accepted
    released,  \* released[c]: times c's rdpCredsspAuth was freed
    settings,  \* rdpSettings: whether GatewayUsername is configured
    lastError, \* the context's last error (freerdp_set_last_error_log)
    last       \* what the most recent call did and returned

vars ==
    <<auth, ctx, initDone, wire, released, settings, lastError, last>>

(* ---------------- bounds ---------------- *)

\* Requests written per channel.
MaxWire == 2

(* ---------------- program constants ---------------- *)

FALSE_ == 0
TRUE_ == 1

\* (rc == 0) ? 0 : 0x40000000
InCompleteLength == 1073741824

\* (rc == 0) ? 0 : 76
OutCompleteLength == 76

\* (rc == 0) ? 0 : 120
OutReplacementLength == 120

(* ---------------- size_t and UINT32 ---------------- *)

\* A size_t (64 bits) is kept as two digits, n = w * 2^16 + l with l < 2^16,
\* so that lengths beyond 32 bits stay within TLC's 32-bit integers.
Limb == 2^16

Size(w, l) == [w |-> w, l |-> l]

SizeOf(n) == Size(n \div Limb, n % Limb)

SizeZero == Size(0, 0)

UINT32_MAX == Size(Limb - 1, Limb - 1)

\* a > b
SizeGreater(a, b) == a.w > b.w \/ (a.w = b.w /\ a.l > b.l)

\* (UINT32)n: the low 32 bits
ToUINT32(n) == Size(n.w % Limb, n.l)

\* 3 * blocks - pad, for blocks up to 2^31
DecodedLength(blocks, pad) ==
    LET low == 3 * (blocks % Limb) - pad
    IN  Size(3 * (blocks \div Limb) + (low \div Limb), low % Limb)

AUTH_PKG == "NTLM"

Chan == {"in", "out"}

(* ---------------- tokens and buffers ---------------- *)

\* A SecBuffer: pvBuffer (NULL or not) and cbBuffer.
NoToken == [present |-> FALSE, len |-> SizeZero]

Token(n) == [present |-> TRUE, len |-> SizeOf(n)]

\* Lengths of the output tokens the security package produces.
OutTokenLens == {0, 2}

\* A header value: a string of 4 * blocks + rem characters (rem < 4), the
\* last pad of them '=', all of them of the alphabet or not.
NoHeader == [present |-> FALSE, blocks |-> 0, rem |-> 0, pad |-> 0, valid |-> FALSE]

HeaderValue(n, r, p, v) ==
    [present |-> TRUE, blocks |-> n, rem |-> r, pad |-> p, valid |-> v]

\* 6-bit-group encoding, padded: 4 characters per 3 bytes. The tokens the
\* package produces are shorter than 2^16 bytes.
crypto_base64_encode(token, ok) ==
    IF ~ok
        THEN NoHeader
        ELSE HeaderValue((token.len.l + 2) \div 3, 0, (3 - (token.len.l % 3)) % 3, TRUE)

\* crypto_base64_decode returns nothing: it sets *dec_data and *res_length on
\* success and leaves them (NULL, 0) when the input is malformed.
IsMalformed(token64) ==
    \/ ~token64.valid
    \/ token64.rem # 0
    \/ token64.pad > 2
    \/ (token64.blocks = 0 /\ token64.pad > 0)

crypto_base64_decode(token64) ==
    IF IsMalformed(token64)
        THEN [data |-> FALSE, length |-> SizeZero]
        ELSE [data |-> TRUE, length |-> DecodedLength(token64.blocks, token64.pad)]

\* The header values a response can carry: the empty string, short tokens,
\* strings long enough to decode to UINT32_MAX bytes (1431655765 blocks) and
\* to one byte more, and malformed ones: a length that is no multiple of 4,
\* too much padding, a character outside the alphabet.
HeaderBlocks == {0, 1, 1431655765, 1431655766}

HeaderValues ==
    {HeaderValue(n, 0, p, TRUE) : n \in HeaderBlocks, p \in {0, 2}}
        \cup {HeaderValue(1, 3, 0, TRUE), HeaderValue(1, 0, 3, TRUE),
              HeaderValue(1, 0, 0, FALSE)}

\* A header of another scheme than the package's.
OtherSchemeValue == HeaderValue(1, 0, 0, TRUE)

\* http_response_get_auth_token: the value of the header of that scheme.
Responses ==
    {[null |-> FALSE, scheme |-> AUTH_PKG, value |-> h] : h \in HeaderValues}
        \cup {[null |-> FALSE, scheme |-> "Basic", value |-> OtherSchemeValue],
              [null |-> FALSE, scheme |-> "", value |-> NoHeader]}

\* HttpResponse* response = NULL
NullResponse == [null |-> TRUE, scheme |-> "", value |-> NoHeader]

http_response_get_auth_token(response, name) ==
    IF response.scheme = name THEN response.value ELSE NoHeader

(* ---------------- the security context (rdpCredsspAuth) ---------------- *)

FreshCtx ==
    [state |-> "INITIAL", pkgInit |-> FALSE, flags |-> {}, identity |-> "unset",
     input |-> NoToken, output |-> NoToken]

RcValues == {-1, 0, 1}

\* One authentication step: the outcomes the security package can report.
\* A context that was never set up, or that has completed, rejects the step.
credssp_auth_authenticate(a) ==
    IF a.state \in {"INITIAL", "FINAL"}
        THEN {[rc |-> -1, ctx |-> a]}
        ELSE {[rc |-> r,
               ctx |-> [a EXCEPT !.state = IF r > 0 THEN "FINAL"
                                           ELSE IF r = 0 THEN "IN_PROGRESS" ELSE @,
                                 !.input = NoToken,
                                 !.output = o]] :
                 r \in RcValues,
                 o \in {NoToken} \cup {Token(n) : n \in OutTokenLens}}

credssp_auth_have_output_token(a) == a.output.present

credssp_auth_get_output_buffer(a) == a.output

credssp_auth_pkg_name(a) == AUTH_PKG

credssp_auth_is_complete(a) == a.state = "FINAL"

credssp_auth_take_input_buffer(a, buffer) == [a EXCEPT !.input = buffer]

(* ---------------- requests ---------------- *)

NoRequest ==
    [method |-> "", contentLength |-> 0, uri |-> "", scheme |-> "", param |-> NoHeader]

NoStream == [ok |-> FALSE, request |-> NoRequest]

\* What the calls rpc_auth_http_request makes can report: http_request_new,
\* crypto_base64_encode, the three setters, the two auth setters and
\* http_request_write each succeed or fail. The first failure decides the
\* outcome, so one failing call at a time covers every outcome.
Faults == {"none", "reqNew", "encode", "set", "setAuth", "write"}

Envs ==
    {[reqNew |-> f # "reqNew", encode |-> f # "encode", set |-> f # "set",
      setAuth |-> f # "setAuth", write |-> f # "write"] : f \in Faults}

HasAuthHeader(request) == request.param.present

rpc_auth_http_request(http, method, contentLength, authToken, auth_scheme, env) ==
    IF ~http \/ method = "" \/ ~env.reqNew
        THEN NoStream
        ELSE LET base64AuthToken ==
                     IF authToken.present
                         THEN crypto_base64_encode(authToken, env.encode)
                         ELSE NoHeader
             IN  IF ~env.set
                     THEN NoStream
                 ELSE IF base64AuthToken.present /\ ~env.setAuth
                     THEN NoStream
                 ELSE IF ~env.write
                     THEN NoStream
                 ELSE [ok |-> TRUE,
                       request |->
                           [method |-> method,
                            contentLength |-> contentLength,
                            uri |-> "uri",
                            scheme |-> IF base64AuthToken.present
                                           THEN auth_scheme ELSE "",
                            param |-> base64AuthToken]]

\* rpc_channel_write: bytes written, zero, or an error.
WriteStatuses == {-1, 0, 64}

(* ---------------- the record of a call ---------------- *)

\* What one call did: the pointers it was given (NULL or not), the steps it
\* ran, the request it built, the writes it made, the buffer it decoded and
\* what became of it, and its result.
NoCall ==
    [op |-> "none", chan |-> "", entered |-> FALSE, result |-> 0,
     channel |-> TRUE, authSet |-> TRUE, http |-> TRUE, response |-> TRUE,
     steps |-> 0, rc |-> 0, hadToken |-> FALSE, replacement |-> FALSE,
     built |-> FALSE, request |-> NoRequest,
     writes |-> 0, status |-> 0,
     scheme |-> "", header |-> FALSE, malformed |-> FALSE, data |-> FALSE, length |-> SizeZero,
     buffer |-> NoToken, fed |-> 0, freed |-> 0,
     decision |-> "", identityArg |-> "unset", identityFreed |-> FALSE]

(* ---------------- the initial state ---------------- *)

\* A channel is created with its auth allocated (not yet initialised) and its
\* http context set.
Init ==
    /\ auth = [c \in Chan |-> TRUE]
    /\ ctx = [c \in Chan |-> FreshCtx]
    /\ initDone = [c \in Chan |-> FALSE]
    /\ wire = [c \in Chan |-> <<>>]
    /\ released = [c \in Chan |-> 0]
    /\ settings \in [GatewayUsername : BOOLEAN]
    /\ lastError = "FREERDP_ERROR_NONE"
    /\ last = NoCall

(* ---------------- rpc_ncacn_http_send_in_channel_request ---------------- *)

\* The two lengths the wrong way round.
InContentLength_Swapped(rc) == IF rc = 0 THEN InCompleteLength ELSE 0

\* const size_t contentLength = (rc == 0) ? 0 : 0x40000000;
InContentLength(rc) == IF rc = 0 THEN 0 ELSE InCompleteLength

\* return (status > 0) ? 1 : -1;
InSendResult(status) == IF status > 0 THEN 1 ELSE -1

\* if (!s) return -1;
NoStreamResult == -1

\* A failed step taken for a step that needs more input.
StepFailed_Never(rc) == rc < -1

\* if (rc < 0) return FALSE;
StepFailed(rc) == rc < 0

\* The channel pointer a send is called with and the channel's http field.
SendArgs == [channel : BOOLEAN, http : BOOLEAN]

\* The test of channel->auth left out.
SendArgsMissing_AuthUnchecked(channel, authSet, http) == ~channel \/ ~http

\* if (!inChannel || !inChannel->auth || !inChannel->http) return FALSE;
SendArgsMissing(channel, authSet, http) == ~channel \/ ~authSet \/ ~http

\* buffer = credssp_auth_have_output_token(auth) ? output buffer : NULL
OutputBuffer(a) ==
    IF credssp_auth_have_output_token(a)
        THEN credssp_auth_get_output_buffer(a)
        ELSE NoToken

rpc_ncacn_http_send_in_channel_request ==
    LET c == "in" IN
    \E args \in SendArgs :
    /\ Len(wire[c]) < MaxWire
    /\ UNCHANGED <<auth, initDone, released, settings, lastError>>
    /\ IF SendArgsMissing(args.channel, auth[c], args.http)
           THEN /\ last' = [NoCall EXCEPT !.op = "send", !.chan = c,
                                          !.channel = args.channel,
                                          !.authSet = auth[c],
                                          !.http = args.http,
                                          !.result = FALSE_]
                /\ UNCHANGED <<ctx, wire>>
           ELSE \E o \in credssp_auth_authenticate(ctx[c]) :
                    /\ ctx' = [ctx EXCEPT ![c] = o.ctx]
                    /\ LET called == [NoCall EXCEPT !.op = "send", !.chan = c,
                                                    !.entered = TRUE,
                                                    !.steps = 1, !.rc = o.rc]
                       IN
                       IF StepFailed(o.rc)
                           THEN /\ last' = [called EXCEPT !.result = FALSE_]
                                /\ UNCHANGED wire
                           ELSE \E env \in Envs :
                                    LET buffer == OutputBuffer(o.ctx)
                                        s == rpc_auth_http_request(
                                                 args.http, "RPC_IN_DATA",
                                                 InContentLength(o.rc), buffer,
                                                 credssp_auth_pkg_name(o.ctx), env)
                                        stepped == [called EXCEPT
                                                       !.hadToken = buffer.present]
                                    IN
                                    IF ~s.ok
                                        THEN /\ last' = [stepped EXCEPT
                                                            !.result = NoStreamResult]
                                             /\ UNCHANGED wire
                                        ELSE \E status \in WriteStatuses :
                                                 /\ wire' = IF status > 0
                                                       THEN [wire EXCEPT ![c] =
                                                                Append(@, s.request)]
                                                       ELSE wire
                                                 /\ last' = [stepped EXCEPT
                                                       !.built = TRUE,
                                                       !.request = s.request,
                                                       !.writes = 1,
                                                       !.status = status,
                                                       !.result = InSendResult(status)]

(* ---------------- rpc_ncacn_http_send_out_channel_request ---------------- *)

\* The replacement flag read the wrong way round.
OutContentLength_Swapped(rc, replacement) ==
    IF replacement
        THEN (IF rc = 0 THEN 0 ELSE OutCompleteLength)
        ELSE (IF rc = 0 THEN 0 ELSE OutReplacementLength)

\* if (!replacement) contentLength = (rc == 0) ? 0 : 76;
\* else              contentLength = (rc == 0) ? 0 : 120;
OutContentLength(rc, replacement) ==
    IF ~replacement
        THEN (IF rc = 0 THEN 0 ELSE OutCompleteLength)
        ELSE (IF rc = 0 THEN 0 ELSE OutReplacementLength)

\* BOOL status = TRUE; if (rpc_channel_write(...) < 0) status = FALSE;
OutSendResult(status) == IF status < 0 THEN FALSE_ ELSE TRUE_

rpc_ncacn_http_send_out_channel_request ==
    LET c == "out" IN
    \E replacement \in BOOLEAN, args \in SendArgs :
    /\ Len(wire[c]) < MaxWire
    /\ UNCHANGED <<auth, initDone, released, settings, lastError>>
    /\ IF SendArgsMissing(args.channel, auth[c], args.http)
           THEN /\ last' = [NoCall EXCEPT !.op = "send", !.chan = c,
                                          !.channel = args.channel,
                                          !.authSet = auth[c],
                                          !.http = args.http,
                                          !.replacement = replacement,
                                          !.result = FALSE_]
                /\ UNCHANGED <<ctx, wire>>
           ELSE \E o \in credssp_auth_authenticate(ctx[c]) :
                    /\ ctx' = [ctx EXCEPT ![c] = o.ctx]
                    /\ LET called == [NoCall EXCEPT !.op = "send", !.chan = c,
                                                    !.entered = TRUE,
                                                    !.replacement = replacement,
                                                    !.steps = 1, !.rc = o.rc]
                       IN
                       IF StepFailed(o.rc)
                           THEN /\ last' = [called EXCEPT !.result = FALSE_]
                                /\ UNCHANGED wire
                           ELSE \E env \in Envs :
                                    LET buffer == OutputBuffer(o.ctx)
                                        s == rpc_auth_http_request(
                                                 args.http, "RPC_OUT_DATA",
                                                 OutContentLength(o.rc, replacement),
                                                 buffer,
                                                 credssp_auth_pkg_name(o.ctx), env)
                                        stepped == [called EXCEPT
                                                       !.hadToken = buffer.present]
                                    IN
                                    IF ~s.ok
                                        THEN /\ last' = [stepped EXCEPT
                                                            !.result = NoStreamResult]
                                             /\ UNCHANGED wire
                                        ELSE \E status \in WriteStatuses :
                                                 /\ wire' = IF status > 0
                                                       THEN [wire EXCEPT ![c] =
                                                                Append(@, s.request)]
                                                       ELSE wire
                                                 /\ last' = [stepped EXCEPT
                                                       !.built = TRUE,
                                                       !.request = s.request,
                                                       !.writes = 1,
                                                       !.status = status,
                                                       !.result = OutSendResult(status)]

(* ---------------- rpc_ncacn_http_recv_{in,out}_channel_response ---------------- *)

\* The length check left out.
TokenTooLarge_Unchecked(authTokenLength) == FALSE

\* if (authTokenLength > UINT32_MAX)
TokenTooLarge(authTokenLength) == SizeGreater(authTokenLength, UINT32_MAX)

\* The buffer handed over whatever was decoded.
TakesInput_Always(authTokenData, authTokenLength) == TRUE

\* The length left out of the test: an empty token is handed over too.
TakesInput_DataOnly(authTokenData, authTokenLength) == authTokenData

\* if (authTokenData && authTokenLength)
TakesInput(authTokenData, authTokenLength) ==
    authTokenData /\ authTokenLength # SizeZero

\* if (token64) crypto_base64_decode(token64, strlen(token64), &data, &length);
DecodeHeader(token64) ==
    IF token64.present
        THEN crypto_base64_decode(token64)
        ELSE [data |-> FALSE, length |-> SizeZero]

\* free(authTokenData): the number of buffers released
FreeTooLarge(authTokenData) == IF authTokenData THEN 1 ELSE 0

\* The buffer kept when it is not handed over.
FreeBuffer_Skipped(buffer) == 0

\* sspi_SecBufferFree(&buffer): the number of buffers released
FreeBuffer(buffer) == IF buffer.present THEN 1 ELSE 0

\* The other channel.
Other(c) == IF c = "in" THEN "out" ELSE "in"

\* The token handed to the other channel's context.
FeedContext_OtherChannel(cx, c, buffer) ==
    [cx EXCEPT ![Other(c)] = credssp_auth_take_input_buffer(@, buffer)]

\* rdpCredsspAuth* auth = inChannel->auth;
\* credssp_auth_take_input_buffer(auth, &buffer);
FeedContext(cx, c, buffer) ==
    [cx EXCEPT ![c] = credssp_auth_take_input_buffer(@, buffer)]

\* if (!inChannel || !response || !inChannel->auth) return FALSE;
RecvArgsMissing(channel, response, authSet) ==
    ~channel \/ response.null \/ ~authSet

\* The body the two recv functions share, line for line.
RecvResponse(c) ==
    \E channel \in BOOLEAN, response \in Responses \cup {NullResponse} :
    \* credssp_auth_pkg_name needs the package that init sets
    /\ auth[c] => ctx[c].pkgInit
    /\ UNCHANGED <<auth, initDone, wire, released, settings, lastError>>
    /\ IF RecvArgsMissing(channel, response, auth[c])
           THEN /\ last' = [NoCall EXCEPT !.op = "recv", !.chan = c,
                                          !.channel = channel,
                                          !.authSet = auth[c],
                                          !.response = ~response.null,
                                          !.result = FALSE_]
                /\ UNCHANGED ctx
           ELSE LET token64 == http_response_get_auth_token(
                                   response, credssp_auth_pkg_name(ctx[c]))
                    dec == DecodeHeader(token64)
                    called == [NoCall EXCEPT !.op = "recv", !.chan = c,
                                             !.entered = TRUE,
                                             !.scheme = response.scheme,
                                             !.header = token64.present,
                                             !.malformed = token64.present
                                                           /\ IsMalformed(token64),
                                             !.data = dec.data,
                                             !.length = dec.length]
                IN
                IF TokenTooLarge(dec.length)
                    THEN /\ last' = [called EXCEPT
                                        !.freed = FreeTooLarge(dec.data),
                                        !.result = FALSE_]
                         /\ UNCHANGED ctx
                    ELSE LET buffer == [present |-> dec.data,
                                        len |-> ToUINT32(dec.length)]
                         IN
                         IF TakesInput(dec.data, dec.length)
                             THEN /\ ctx' = FeedContext(ctx, c, buffer)
                                  /\ last' = [called EXCEPT !.buffer = buffer,
                                                            !.fed = 1,
                                                            !.result = TRUE_]
                             ELSE /\ last' = [called EXCEPT
                                        !.buffer = buffer,
                                        !.freed = FreeBuffer(buffer),
                                        !.result = TRUE_]
                                  /\ UNCHANGED ctx

rpc_ncacn_http_recv_in_channel_response == RecvResponse("in")

rpc_ncacn_http_recv_out_channel_response == RecvResponse("out")

(* ---------------- rpc_ncacn_http_auth_init ---------------- *)

\* utils_authenticate_gateway(instance, GW_AUTH_HTTP)
Decisions ==
    {"AUTH_SUCCESS", "AUTH_SKIP", "AUTH_CANCELLED", "AUTH_NO_CREDENTIALS",
     "AUTH_FAILED"}

\* The credentials a successful prompt returns are stored in the settings.
utils_authenticate_gateway(st, decision) ==
    IF decision = "AUTH_SUCCESS" THEN [st EXCEPT !.GatewayUsername = TRUE] ELSE st

\* The cancellation handled like AUTH_FAILED: no error recorded.
LastErrorAfter_Generic(decision, err) == err

\* case AUTH_CANCELLED: freerdp_set_last_error_log(..., CONNECT_CANCELLED)
LastErrorAfter(decision, err) ==
    IF decision = "AUTH_CANCELLED" THEN "FREERDP_ERROR_CONNECT_CANCELLED" ELSE err

\* settings->GatewayUsername ? &identity : NULL
IdentityArg(st) == IF st.GatewayUsername THEN "set" ELSE "null"

rpc_ncacn_http_auth_init(c) ==
    \E decision \in Decisions, initOk \in BOOLEAN, identityOk \in BOOLEAN,
       res \in BOOLEAN :
    /\ ~initDone[c]
    /\ initDone' = [initDone EXCEPT ![c] = TRUE]
    /\ UNCHANGED <<auth, wire, released>>
    /\ LET called == [NoCall EXCEPT !.op = "init", !.chan = c]
           decided == [called EXCEPT !.decision = decision]
       IN
       IF ~auth[c]
           THEN /\ last' = [called EXCEPT !.result = FALSE_]
                /\ UNCHANGED <<ctx, settings, lastError>>
       ELSE IF decision = "AUTH_CANCELLED"
           THEN /\ lastError' = LastErrorAfter(decision, lastError)
                /\ last' = [decided EXCEPT !.result = FALSE_]
                /\ UNCHANGED <<ctx, settings>>
       ELSE IF decision = "AUTH_FAILED"
           THEN /\ last' = [decided EXCEPT !.result = FALSE_]
                /\ UNCHANGED <<ctx, settings, lastError>>
       ELSE /\ settings' = utils_authenticate_gateway(settings, decision)
            /\ UNCHANGED lastError
            /\ IF ~initOk
                   THEN /\ last' = [decided EXCEPT !.result = FALSE_]
                        /\ UNCHANGED ctx
               ELSE IF ~identityOk
                   THEN /\ ctx' = [ctx EXCEPT ![c].pkgInit = TRUE]
                        /\ last' = [decided EXCEPT !.result = FALSE_]
               ELSE /\ ctx' = [ctx EXCEPT
                                  ![c].pkgInit = TRUE,
                                  ![c].state = IF res THEN "CREDS" ELSE @,
                                  ![c].identity = IF res THEN IdentityArg(settings')
                                                  ELSE @,
                                  ![c].flags = {"ISC_REQ_CONFIDENTIALITY"}]
                    /\ last' = [decided EXCEPT
                                   !.identityArg = IdentityArg(settings'),
                                   !.identityFreed = TRUE,
                                   !.result = IF res THEN TRUE_ ELSE FALSE_]

(* ---------------- rpc_ncacn_http_auth_uninit ---------------- *)

\* The pointer left as it was: it dangles.
ClearedAuth_Dangling(authSet) == authSet

\* channel->auth = NULL;
ClearedAuth(authSet) == FALSE

\* The rdpCredsspAuth after credssp_auth_free.
FreedCtx == [FreshCtx EXCEPT !.state = "FREED"]

\* credssp_auth_free(NULL) does nothing.
rpc_ncacn_http_auth_uninit(c) ==
    \E channel \in BOOLEAN :
    /\ UNCHANGED <<initDone, wire, settings, lastError>>
    /\ last' = [NoCall EXCEPT !.op = "uninit", !.chan = c,
                              !.channel = channel, !.authSet = auth[c]]
    /\ IF ~channel
           THEN UNCHANGED <<auth, ctx, released>>
           ELSE /\ released' = [released EXCEPT ![c] =
                                   IF auth[c] THEN @ + 1 ELSE @]
                /\ ctx' = [ctx EXCEPT ![c] = IF auth[c] THEN FreedCtx ELSE @]
                /\ auth' = [auth EXCEPT ![c] = ClearedAuth(@)]

(* ---------------- the specification ---------------- *)

\* The handshake reported as never complete.
rpc_ncacn_http_is_final_request_Never(c) == FALSE

\* return credssp_auth_is_complete(channel->auth);
rpc_ncacn_http_is_final_request(c) == credssp_auth_is_complete(ctx[c])

\* Nothing was called on c yet.
Untouched(c) ==
    /\ auth[c]
    /\ ctx[c] = FreshCtx
    /\ ~initDone[c]
    /\ wire[c] = <<>>
    /\ released[c] = 0

\* Each function takes one channel and reads and writes that channel's
\* fields only, so a run drives one channel's handshake, either of the two,
\* while the other channel is left as it was created.
Next ==
    \/ (Untouched("out") /\ rpc_ncacn_http_auth_init("in"))
    \/ (Untouched("out") /\ rpc_ncacn_http_send_in_channel_request)
    \/ (Untouched("out") /\ rpc_ncacn_http_recv_in_channel_response)
    \/ (Untouched("out") /\ rpc_ncacn_http_auth_uninit("in"))
    \/ (Untouched("in") /\ rpc_ncacn_http_auth_init("out"))
    \/ (Untouched("in") /\ rpc_ncacn_http_send_out_channel_request)
    \/ (Untouched("in") /\ rpc_ncacn_http_recv_out_channel_response)
    \/ (Untouched("in") /\ rpc_ncacn_http_auth_uninit("out"))

Spec == Init /\ [][Next]_vars

(* ---------------- the caller's round loop ---------------- *)

\* The caller tests each BOOL result for FALSE and gives up on FALSE.
CallerGoesOn(result) == result # FALSE_

\* The hypotheses on one send of the loop: the transport write succeeds, and
\* the package completes at the latest on the step that fills the wire.
LoopSendHypotheses(c) ==
    /\ last'.writes = 1 => last'.status > 0
    /\ Len(wire[c]) = MaxWire - 1 => last'.rc > 0

\* The loop is at its send on c: right after a successful init, or after a
\* recv that left the handshake incomplete.
AtSend(c) ==
    /\ last.chan = c
    /\ CallerGoesOn(last.result)
    /\ \/ last.op = "init"
       \/ last.op = "recv" /\ ~rpc_ncacn_http_is_final_request(c)

\* The loop awaits the response to the send it made on c.
AtRecv(c) == last.op = "send" /\ last.chan = c /\ CallerGoesOn(last.result)

LoopInit(c) ==
    /\ last.op = "none"
    /\ rpc_ncacn_http_auth_init(c)
    /\ CallerGoesOn(last'.result)

LoopSendIn ==
    /\ AtSend("in")
    /\ rpc_ncacn_http_send_in_channel_request
    /\ CallerGoesOn(last'.result)
    /\ LoopSendHypotheses("in")

LoopSendOut ==
    /\ AtSend("out")
    /\ rpc_ncacn_http_send_out_channel_request
    /\ CallerGoesOn(last'.result)
    /\ LoopSendHypotheses("out")

LoopRecvIn ==
    /\ AtRecv("in")
    /\ rpc_ncacn_http_recv_in_channel_response
    /\ CallerGoesOn(last'.result)

LoopRecvOut ==
    /\ AtRecv("out")
    /\ rpc_ncacn_http_recv_out_channel_response
    /\ CallerGoesOn(last'.result)

\* The loop has stopped: the recv of a round is done and the handshake is
\* complete.
LoopDone ==
    /\ last.op = "recv"
    /\ CallerGoesOn(last.result)
    /\ rpc_ncacn_http_is_final_request(last.chan)

NextLoop ==
    \/ LoopInit("in")
    \/ LoopInit("out")
    \/ LoopSendIn
    \/ LoopSendOut
    \/ LoopRecvIn
    \/ LoopRecvOut

\* The loop keeps going while it can, and a package that can report Complete
\* again and again does report it.
SpecLoop ==
    /\ Init
    /\ [][NextLoop]_vars
    /\ WF_vars(NextLoop)
    /\ SF_vars(LoopSendIn /\ last'.rc > 0)
    /\ SF_vars(LoopSendOut /\ last'.rc > 0)

(* ---------------- the two handshakes interleaved ---------------- *)

\* The rounds of the two channels interleaved: each channel is set up, then
\* its sends and recvs run in any order between those of the other channel.
\* The inputs are those of a handshake that goes well: the package produces a
\* token in each step, the request is built with its header and written, and
\* a response carries no token or a well-formed one of 3 bytes.
SendGoesWell(c) ==
    /\ last'.built
    /\ last'.status > 0
    /\ HasAuthHeader(last'.request)
    /\ ctx'[c].output = Token(2)

RecvGoesWell ==
    /\ last'.entered
    /\ last'.scheme \in {AUTH_PKG, ""}
    /\ last'.header => last'.fed = 1 /\ last'.length = SizeOf(3)

BothInit(c) ==
    /\ rpc_ncacn_http_auth_init(c)
    /\ last'.result = TRUE_

BothSendIn == rpc_ncacn_http_send_in_channel_request /\ SendGoesWell("in")

BothSendOut == rpc_ncacn_http_send_out_channel_request /\ SendGoesWell("out")

BothRecvIn == rpc_ncacn_http_recv_in_channel_response /\ RecvGoesWell

BothRecvOut == rpc_ncacn_http_recv_out_channel_response /\ RecvGoesWell

NextBoth ==
    \/ BothInit("in")
    \/ BothInit("out")
    \/ BothSendIn
    \/ BothSendOut
    \/ BothRecvIn
    \/ BothRecvOut

SpecBoth == Init /\ [][NextBoth]_vars

(* ---------------- the claims ---------------- *)

\* The last call was a send on c that went past its argument checks.
SendOn(c) == last.op = "send" /\ last.chan = c /\ last.entered

\* The last call was a recv that went past its argument checks.
RecvEntered == last.op = "recv" /\ last.entered

\* C1: an inbound send that builds a request declares content length 0 when
\* the step reports NeedMoreInput (0) and 0x40000000 when it reports Complete
\* (> 0); no other length is declared on the inbound channel.
C1_InboundContentLength ==
    /\ (SendOn("in") /\ last.built) =>
           /\ last.request.method = "RPC_IN_DATA"
           /\ last.rc = 0 => last.request.contentLength = 0
           /\ last.rc > 0 => last.request.contentLength = InCompleteLength
    /\ \A i \in 1..Len(wire["in"]) :
           wire["in"][i].contentLength \in {0, InCompleteLength}

\* A negotiation request was written, then the completing one.
C1_Witness ==
    /\ SendOn("in") /\ last.built /\ last.rc > 0 /\ last.status > 0
    /\ Len(wire["in"]) = 2
    /\ wire["in"][1].contentLength = 0
    /\ wire["in"][2].contentLength = InCompleteLength

\* C2: an outbound send that builds a request declares 0 when the step
\* reports NeedMoreInput whatever the replacement flag, 76 when it reports
\* Complete and replacement is false, 120 when it reports Complete and
\* replacement is true; 0x40000000 is never declared on the outbound channel.
C2_OutboundContentLength ==
    /\ (SendOn("out") /\ last.built) =>
           /\ last.request.method = "RPC_OUT_DATA"
           /\ last.rc = 0 => last.request.contentLength = 0
           /\ (last.rc > 0 /\ ~last.replacement) =>
                  last.request.contentLength = OutCompleteLength
           /\ (last.rc > 0 /\ last.replacement) =>
                  last.request.contentLength = OutReplacementLength
    /\ \A i \in 1..Len(wire["out"]) :
           wire["out"][i].contentLength
               \in {0, OutCompleteLength, OutReplacementLength}

\* A replacement channel completed after a negotiation request.
C2_Witness ==
    /\ SendOn("out") /\ last.built /\ last.rc > 0 /\ last.replacement
    /\ last.status > 0
    /\ Len(wire["out"]) = 2
    /\ wire["out"][1].contentLength = 0
    /\ wire["out"][2].contentLength = OutReplacementLength

\* C3: the request a send builds carries an authentication header if and
\* only if the security context holds a pending output token after that
\* round's step, also when the token cannot be encoded or is zero-length.
C3_HeaderIffToken ==
    (last.op = "send" /\ last.entered /\ last.built) =>
        (HasAuthHeader(last.request)
            <=> credssp_auth_have_output_token(ctx[last.chan]))

\* C4: when the step of a send reports Failed (< 0), the send returns FALSE,
\* builds no request and writes nothing to the transport.
C4_StepFailedNothingSent ==
    [][(last'.op = "send" /\ last'.entered /\ last'.rc < 0) =>
           /\ last'.result = FALSE_
           /\ ~last'.built
           /\ last'.request = NoRequest
           /\ last'.writes = 0
           /\ wire' = wire]_vars

\* A step failed on a context that was set up and had negotiated a round.
C4_Witness ==
    /\ last.op = "send" /\ last.entered /\ last.rc < 0
    /\ ctx[last.chan].state = "IN_PROGRESS"
    /\ Len(wire[last.chan]) = 1

\* C5: on the inbound channel a write that returns a zero or negative byte
\* count makes the send report failure; the send reports success only when
\* the write returned a positive count.
C5_InboundWriteFailureReported ==
    (SendOn("in") /\ last.writes = 1) =>
        /\ last.status <= 0 => last.result = FALSE_
        /\ last.result # FALSE_ => last.status > 0

\* C6: on the outbound channel a write that returns a zero or negative byte
\* count makes the send report failure; zero bytes is a failure.
C6_OutboundWriteFailureReported ==
    (SendOn("out") /\ last.writes = 1 /\ last.status <= 0) =>
        last.result = FALSE_

\* C7: a response with no authentication header of the package's scheme
\* makes recv return success and leaves the security context unchanged.
C7_NoHeaderNoChange ==
    [][(last'.op = "recv" /\ last'.entered /\ last'.scheme # AUTH_PKG) =>
           /\ last'.result = TRUE_
           /\ last'.fed = 0
           /\ ctx' = ctx]_vars

\* A response with a header of another scheme arrived while the context
\* held an input token and had completed a round.
C7_Witness ==
    /\ RecvEntered /\ last.scheme = "Basic"
    /\ ctx[last.chan].input.present
    /\ Len(wire[last.chan]) = 1

\* C8 as stated: whatever token the matching header decodes to, recv returns
\* success, feeding nothing when it is empty and exactly that token, once,
\* when it is not.
C8_DecodedTokenFed ==
    (RecvEntered /\ last.data) =>
        /\ last.result = TRUE_
        /\ last.length = SizeZero => last.fed = 0
        /\ last.length # SizeZero =>
               /\ last.fed = 1
               /\ ctx[last.chan].input = [present |-> TRUE, len |-> last.length]

\* C8 amended: the same for a decoded token of at most UINT32_MAX bytes.
C8_RepresentableTokenFed ==
    [][(last'.op = "recv" /\ last'.entered /\ last'.data
        /\ ~SizeGreater(last'.length, UINT32_MAX)) =>
           /\ last'.result = TRUE_
           /\ last'.length = SizeZero =>
                  /\ last'.fed = 0
                  /\ last'.freed = 1
                  /\ ctx' = ctx
           /\ last'.length # SizeZero =>
                  /\ last'.fed = 1
                  /\ last'.freed = 0
                  /\ ctx' = [ctx EXCEPT ![last'.chan].input =
                                [present |-> TRUE, len |-> last'.length]]]_vars

\* After a negotiation round a token of 3 bytes was handed to the context.
C8_Witness ==
    /\ RecvEntered /\ last.data /\ last.length = SizeOf(3) /\ last.fed = 1
    /\ ctx[last.chan].input = Token(3)
    /\ ctx[last.chan].state = "IN_PROGRESS"
    /\ Len(wire[last.chan]) = 1

\* C9: a matching header whose value is malformed makes recv return failure,
\* and the security context is fed nothing.
C9_MalformedFailsRound ==
    (RecvEntered /\ last.malformed) =>
        /\ last.result = FALSE_
        /\ last.fed = 0

\* C10: a decoded length above UINT32_MAX makes recv return failure, release
\* the decoded buffer and feed the context nothing; a length of at most
\* UINT32_MAX is stored in the 32-bit field as it is.
C10_TokenTooLarge ==
    /\ (RecvEntered /\ SizeGreater(last.length, UINT32_MAX)) =>
           /\ last.result = FALSE_
           /\ last.data /\ last.freed = 1
           /\ last.fed = 0
    /\ (RecvEntered /\ last.data /\ ~SizeGreater(last.length, UINT32_MAX)) =>
           last.buffer.len = last.length
    /\ (RecvEntered /\ last.fed = 1) =>
           ctx[last.chan].input.len = last.length

\* A token of UINT32_MAX + 1 bytes was refused by a context that holds the
\* token of exactly UINT32_MAX bytes it was handed before.
C10_Witness ==
    /\ RecvEntered /\ last.length = Size(Limb, 0) /\ last.result = FALSE_
    /\ last.freed = 1
    /\ ctx[last.chan].input = [present |-> TRUE, len |-> UINT32_MAX]

\* C11: when the decision is Cancelled, init returns failure, records the
\* connect-cancelled error, which the decision Failed does not, and leaves
\* the channel's context as it was created: the security package neither
\* initialised nor set up.
C11_CancelledInit ==
    [][/\ (last'.op = "init" /\ last'.decision = "AUTH_CANCELLED") =>
              /\ last'.result = FALSE_
              /\ lastError' = "FREERDP_ERROR_CONNECT_CANCELLED"
              /\ ctx' = ctx
              /\ ctx'[last'.chan] = FreshCtx
       /\ (last'.op = "init" /\ last'.decision = "AUTH_FAILED") =>
              /\ last'.result = FALSE_
              /\ lastError' = lastError
              /\ ctx' = ctx]_vars

\* The gateway dialog of a channel was cancelled.
C11_Witness ==
    /\ last.op = "init" /\ last.decision = "AUTH_CANCELLED"
    /\ last.result = FALSE_
    /\ lastError = "FREERDP_ERROR_CONNECT_CANCELLED"
    /\ initDone[last.chan] /\ auth[last.chan]
    /\ ~ctx[last.chan].pkgInit

\* C12: whenever init returns failure the channel's context is not left
\* with some initialisation steps applied and others missing, and the
\* identity that was constructed has been released.
C12_NoHalfInitialisedContext ==
    (last.op = "init" /\ last.result = FALSE_ /\ auth[last.chan]) =>
        /\ ~ctx[last.chan].pkgInit
        /\ ctx[last.chan].flags = {}
        /\ ctx[last.chan].state = "INITIAL"

\* C13: when the decision is AUTH_NO_CREDENTIALS the identity passed to the
\* client setup is NULL; the identity is NULL exactly when no gateway
\* username is configured.
C13_NoCredentialsNullIdentity ==
    (last.op = "init" /\ last.identityArg # "unset") =>
        /\ last.decision = "AUTH_NO_CREDENTIALS" => last.identityArg = "null"
        /\ last.identityArg = "null" <=> ~settings.GatewayUsername

\* C14: rpc_ncacn_http_auth_uninit releases the channel's authentication
\* context at most once and leaves the channel without one; a call on a channel
\* whose context is already gone changes nothing, so a second call leaves the
\* state of the first.
C14_UninitIdempotent ==
    [][(last'.op = "uninit" /\ last'.channel) =>
          LET c == last'.chan IN
          /\ ~auth'[c]
          /\ released'[c] = released[c] + (IF auth[c] THEN 1 ELSE 0)
          /\ released'[c] <= 1
          /\ auth[c] => ctx'[c] = FreedCtx
          /\ ~auth[c] => /\ auth' = auth
                         /\ ctx' = ctx
                         /\ released' = released
                         /\ wire' = wire]_vars

\* A second uninit on a channel that was initialised and released.
C14_Witness ==
    /\ last.op = "uninit" /\ last.channel /\ ~last.authSet
    /\ initDone[last.chan]
    /\ released[last.chan] = 1
    /\ ~auth[last.chan]

\* C15: every buffer a recv decodes is disposed of exactly once before the
\* call returns, handed to the context or released, and a call that decodes
\* none hands over and releases none.
C15_BufferDisposedOnce ==
    RecvEntered =>
        /\ last.fed \in {0, 1} /\ last.freed \in {0, 1}
        /\ last.data => last.fed + last.freed = 1
        /\ ~last.data => last.fed = 0 /\ last.freed = 0
        /\ last.fed = 1 => ctx[last.chan].input.present

\* An empty decoded token is released while the context keeps the token of an
\* earlier round.
C15_Witness ==
    /\ RecvEntered /\ last.data /\ last.length = SizeZero
    /\ last.result = TRUE_
    /\ last.freed = 1 /\ last.fed = 0
    /\ ctx[last.chan].input.present

\* C16: once rpc_ncacn_http_is_final_request holds for a channel, a later send
\* or recv on it runs no authentication step, hands no token to the context and
\* leaves the context as it is.
C16_CompletedContextImmutable ==
    [][\A c \in Chan :
          (/\ rpc_ncacn_http_is_final_request(c)
           /\ last'.op \in {"send", "recv"}
           /\ last'.chan = c) =>
              /\ last'.steps = 0
              /\ last'.fed = 0
              /\ ctx'[c] = ctx[c]]_vars

\* The content lengths that mark the completing request of a channel.
CompletionLengths(c) ==
    IF c = "in" THEN {InCompleteLength}
                ELSE {OutCompleteLength, OutReplacementLength}

\* The requests sent on c are some requests of content length 0 followed by
\* exactly one request of completion content length.
OneCompletionRequestLast(c) ==
    /\ Len(wire[c]) >= 1
    /\ wire[c][Len(wire[c])].contentLength \in CompletionLengths(c)
    /\ \A i \in 1..(Len(wire[c]) - 1) : wire[c][i].contentLength = 0

\* C17: the round loop, with every write succeeding and the package
\* completing after finitely many steps, eventually stops with the handshake
\* complete, and when it has stopped exactly one request of completion content
\* length was sent, as the last one, every earlier one declaring length 0.
C17_RoundLoopCompletes ==
    /\ <>LoopDone
    /\ [](LoopDone => OneCompletionRequestLast(last.chan))

\* What a send or recv on c may do to c itself, told from c's own fields and
\* the call's own inputs and outcomes: the step of a handshake that runs alone.
StepOfChannelAlone(c) ==
    /\ auth'[c] = auth[c] /\ initDone'[c] = initDone[c]
    /\ released'[c] = released[c]
    /\ last'.op = "send" =>
           /\ \E o \in credssp_auth_authenticate(ctx[c]) :
                  o.rc = last'.rc /\ o.ctx = ctx'[c]
           /\ wire'[c] = IF last'.writes = 1 /\ last'.status > 0
                             THEN Append(wire[c], last'.request)
                             ELSE wire[c]
           /\ last'.built =>
                  /\ last'.request.contentLength =
                         IF c = "in" THEN InContentLength(last'.rc)
                                     ELSE OutContentLength(last'.rc,
                                                           last'.replacement)
                  /\ HasAuthHeader(last'.request) =>
                         last'.request.param =
                             crypto_base64_encode(OutputBuffer(ctx'[c]), TRUE)
    /\ last'.op = "recv" =>
           /\ wire'[c] = wire[c]
           /\ ctx'[c] = IF last'.fed = 1
                            THEN credssp_auth_take_input_buffer(ctx[c],
                                                                last'.buffer)
                            ELSE ctx[c]

\* C18: under every interleaving of the two channels' operations, a send or
\* recv on one channel leaves the other channel's context, tokens and transport
\* as they were, and the shared settings and last error too, and what it does to
\* its own channel is a step of that channel's handshake run alone.
C18_ChannelsIndependent ==
    [][\A c \in Chan :
          (last'.chan = c /\ last'.op \in {"send", "recv"}) =>
              /\ ctx'[Other(c)] = ctx[Other(c)]
              /\ wire'[Other(c)] = wire[Other(c)]
              /\ auth'[Other(c)] = auth[Other(c)]
              /\ initDone'[Other(c)] = initDone[Other(c)]
              /\ released'[Other(c)] = released[Other(c)]
              /\ settings' = settings
              /\ lastError' = lastError
              /\ StepOfChannelAlone(c)]_vars

\* A token was fed to one channel while the other channel, its handshake
\* under way with a request sent, kept its context and its transport.
C18_Witness ==
    /\ last.op = "recv" /\ last.chan = "in" /\ last.fed = 1
    /\ ctx["in"].input = Token(3)
    /\ ctx["out"].state = "FINAL" /\ ctx["out"].input = NoToken
    /\ Len(wire["out"]) = 1 /\ Len(wire["in"]) = 1

\* The last call's references that a send or recv needs were not all there:
\* the channel, its context (as it was when the call was made), the http
\* context of a send, the response of a recv.
ReferenceMissing ==
    \/ ~last'.channel
    \/ ~auth[last'.chan]
    \/ last'.op = "send" /\ ~last'.http
    \/ last'.op = "recv" /\ ~last'.response

\* C19: a send or recv called with a missing reference (channel, context,
\* also once uninit has cleared it, http context of a send, response of a recv)
\* returns FALSE and runs no authentication step, feeds no token, builds and
\* writes nothing, and leaves every context and the transport as they were.
C19_MissingReferenceFails ==
    [][(last'.op \in {"send", "recv"} /\ ReferenceMissing) =>
          /\ last'.result = FALSE_
          /\ ~last'.entered
          /\ last'.steps = 0 /\ last'.fed = 0 /\ last'.freed = 0
          /\ ~last'.built /\ last'.writes = 0
          /\ ctx' = ctx /\ wire' = wire
          /\ auth' = auth /\ released' = released]_vars

\* A send on a channel whose context uninit has released and cleared.
C19_Witness ==
    /\ last.op = "send" /\ last.channel /\ last.http /\ ~last.authSet
    /\ last.result = FALSE_
    /\ released[last.chan] = 1
    /\ ctx[last.chan] = FreedCtx

\* C20: every result of the two sends is TRUE or FALSE.
C20_SendResultBoolean ==
    last.op = "send" => last.result \in {FALSE_, TRUE_}

====
